---- MODULE Spec2Model ----
(***************************************************************************)
(* Model of the Paracord client's multi-shard orchestrator                 *)
(* (clients/Paracord/Paracord.ts): the login queue, the 1 s login tick,    *)
(* the start-up counters and the gateway event fan-out.                    *)
(*                                                                         *)
(* Optional JavaScript values are modelled as sequences: <<>> is           *)
(* `undefined`, <<v>> is the value v.  Times are in milliseconds.          *)
(***************************************************************************)
EXTENDS Integers, Sequences, FiniteSets, TLC

\* ------------------------------------------------------------------ bounds
MaxShards == 2        \* largest shard count (shard ids range over 0..MaxShards)
MaxShardList == 2     \* longest `shards` list passed to login()
MaxGuilds == 2        \* largest guilds.length of a READY
MaxTicks == 3         \* clock values explored after StartTime
MaxLoginFailures == 1 \* gateway.login() rejections explored
RetryTicks == 4       \* clock values explored after StartTime in RetrySpec
RetryLoginFailures == 2 \* gateway.login() rejections explored in RetrySpec
StartTime == 20000    \* Date.getTime() when the client is constructed

\* ------------------------------------------------------- program constants
SECOND_IN_MILLISECONDS == 1000
IDENTIFY_BUFFER == 10 * SECOND_IN_MILLISECONDS

MaxTime == StartTime + MaxTicks * SECOND_IN_MILLISECONDS

\* ------------------------------------------------------- optional values
Undef == <<>>
Some(v) == <<v>>
IsDef(x) == x # <<>>
Val(x) == x[1]
\* JavaScript truthiness of an optional number
Truthy(x) == IsDef(x) /\ Val(x) # 0

ShardIds == 0..MaxShards
EventTypes == {"READY", "GUILD_CREATE", "MESSAGE_CREATE"}

VARIABLES
  options,                        \* the constructor's `options` argument
  initialized,
  api,                            \* the Api client, by the number of the setUpApi call that built it
  preventLogin,
  allowEventsDuringStartup,
  unavailableGuildTolerance,
  unavailableGuildWait,
  gateways,                       \* the gateways Map, in insertion order
  gatewayLoginQueue,              \* sequence of shard ids
  safeGatewayIdentifyTimestamp,
  gatewayWaitCount,
  startingGateway,
  guildWaitCount,
  lastGuildTimestamp,
  startWithUnavailableGuildsInterval, \* handle of the last force-start interval
  timers,                         \* force-start intervals still running
  processGatewayQueueInterval,    \* TRUE once the login interval is running
  loginState,                     \* position of the async login() call
  loginOptions,                   \* the `options` of a login() awaiting the API
  loginError,                     \* the Error login() rejected with
  loginArgs,                      \* process.env and login()'s argument, if fixed
  pendingLogin,                   \* the calls of processGatewayQueue awaiting gateway.login()
  phase,                          \* per gateway: connection phase
  now,                            \* new Date().getTime()
  emitted,                        \* events emitted by the client, in order
  lastLogin,                      \* the gateway on which login() was called last
  loginFailures,                  \* number of rejected gateway.login() calls
  lastCall,                       \* what eventHandler returned, if it ran last
  released,                       \* gateways on which releaseIdentifyLocks() was called
  awaited,                        \* the starting shard's own READY and GUILD_CREATEs
  events,                         \* the user's event-name remap
  listeners,                      \* listeners registered on the client
  lastEmit,                       \* what emit() delivered, if it ran last
  templates,                      \* the RateLimitTemplateMap
  rateLimits,                     \* the RateLimitMap
  rateCall,                       \* the last call on either map, if it ran last
  globalRateLimit,                \* the cache's global bucket: end of its cool-down
  rpcCall,                        \* the last call of the rate limit service
  users,                          \* the users Map: id to cached user object
  presences,                      \* the presences Map: user id to cached presence object
  guildCache,                     \* the guilds Map: per guild the keys of its members and its presences
  cacheCall                       \* the last call on the caches, if it ran last

paracordVars ==
  <<options, initialized, api, preventLogin, allowEventsDuringStartup,
    unavailableGuildTolerance, unavailableGuildWait, gateways,
    gatewayLoginQueue, safeGatewayIdentifyTimestamp, gatewayWaitCount,
    startingGateway, guildWaitCount, lastGuildTimestamp,
    startWithUnavailableGuildsInterval, timers, processGatewayQueueInterval,
    loginState, loginOptions, loginError, loginArgs, pendingLogin, phase,
    emitted, lastLogin, loginFailures, lastCall, released, awaited>>

emitterVars == <<events, listeners, lastEmit>>

rateLimitVars == <<templates, rateLimits, rateCall>>

rpcVars == <<globalRateLimit, rpcCall>>

cacheVars == <<users, presences, guildCache, cacheCall>>

vars == <<options, initialized, api, preventLogin, allowEventsDuringStartup,
          unavailableGuildTolerance, unavailableGuildWait, gateways,
          gatewayLoginQueue, safeGatewayIdentifyTimestamp, gatewayWaitCount,
          startingGateway, guildWaitCount, lastGuildTimestamp,
          startWithUnavailableGuildsInterval, timers,
          processGatewayQueueInterval, loginState, loginOptions, loginError,
          loginArgs, pendingLogin,
          phase, now, emitted, lastLogin, loginFailures, lastCall, released,
          awaited, emitterVars, rateLimitVars, rpcVars, cacheVars>>

\* --------------------------------------------------------------- inputs
\* Object.assign(this, options) copies every key of the constructor options.
ParacordOptions ==
  [ safeGatewayIdentifyTimestamp : {Undef, Some(0)},
    gatewayWaitCount : {Undef, Some(1)},
    preventLogin : {Undef, Some(TRUE)} ]

DefaultOptions ==
  [ safeGatewayIdentifyTimestamp |-> Undef,
    gatewayWaitCount |-> Undef,
    preventLogin |-> Undef ]

\* The shard lists a caller passes: ids in ascending order, repetitions
\* among them, or in descending order.
ShardLists ==
  { q \in UNION { [1..n -> ShardIds] : n \in 1..MaxShardList } :
      \/ \A i, j \in DOMAIN q : i < j => q[i] <= q[j]
      \/ \A i, j \in DOMAIN q : i < j => q[i] > q[j] }

\* The tolerance and the wait are given together or not at all.
ParacordLoginOptions ==
  { o \in [ unavailableGuildTolerance : {Undef, Some(1)},
            unavailableGuildWait : {Undef, Some(1)},
            allowEventsDuringStartup : {Undef, Some(TRUE)},
            shards : {Undef} \cup { Some(q) : q \in ShardLists },
            shardCount : {Undef} \cup { Some(n) : n \in 1..MaxShards } ] :
      IsDef(o.unavailableGuildTolerance) = IsDef(o.unavailableGuildWait) }

\* ---------------------------------------------------------- environment
\* Strings are sequences of characters.  The shard launcher writes the shard
\* ids as a comma-separated list of decimal numbers and the count as a
\* decimal number.
DigitChars == <<"0", "1", "2", "3", "4", "5", "6", "7", "8", "9">>

RECURSIVE DecimalString(_)
DecimalString(n) ==
  IF n < 10 THEN <<DigitChars[n + 1]>>
  ELSE DecimalString(n \div 10) \o <<DigitChars[(n % 10) + 1]>>

RECURSIVE Join(_)
Join(q) ==
  IF Len(q) = 1 THEN DecimalString(q[1])
  ELSE DecimalString(Head(q)) \o <<",">> \o Join(Tail(q))

\* String.prototype.split(',')
RECURSIVE split(_)
split(str) ==
  IF \A i \in DOMAIN str : str[i] # ","
  THEN <<str>>
  ELSE LET i == CHOOSE j \in DOMAIN str :
                  str[j] = "," /\ \A k \in 1..(j - 1) : str[k] # ","
       IN <<SubSeq(str, 1, i - 1)>> \o split(SubSeq(str, i + 1, Len(str)))

\* Number(str) of a string of decimal digits; Number('') is 0.
RECURSIVE Number(_)
Number(str) ==
  IF str = <<>> THEN 0
  ELSE LET d == CHOOSE v \in 0..9 : DigitChars[v + 1] = str[Len(str)]
       IN Number(SubSeq(str, 1, Len(str) - 1)) * 10 + d

NoEnv == [ PARACORD_SHARD_IDS |-> Undef, PARACORD_SHARD_COUNT |-> Undef ]

\* process.env: neither variable, the count alone, or both.
Envs ==
  {NoEnv}
  \cup { [ PARACORD_SHARD_IDS |-> Undef,
           PARACORD_SHARD_COUNT |-> Some(DecimalString(n)) ] : n \in 1..MaxShards }
  \cup { [ PARACORD_SHARD_IDS |-> Some(Join(q)),
           PARACORD_SHARD_COUNT |-> Some(DecimalString(n)) ] :
         q \in ShardLists, n \in 1..MaxShards }

\* What the caller passes to login() under a shard launcher: a plan of its
\* own, of at most one shard, and nothing else.
LauncherLoginOptions ==
  { o \in ParacordLoginOptions :
      /\ ~IsDef(o.unavailableGuildTolerance)
      /\ ~IsDef(o.allowEventsDuringStartup)
      /\ IsDef(o.shards) => Len(Val(o.shards)) = 1 }

\* A run of login(): the environment and the argument.
LoginInputs ==
  { i \in [ env : Envs, options : ParacordLoginOptions ] :
      i.env # NoEnv => i.options \in LauncherLoginOptions }

NoCall == [op |-> "none", ret |-> "none"]
NoLogin ==
  [ unavailableGuildTolerance |-> Undef, unavailableGuildWait |-> Undef,
    allowEventsDuringStartup |-> Undef, shards |-> Undef,
    shardCount |-> Undef ]

\* ------------------------------------------------- the start-up procedures
\* The procedures below run inside handlers; they are functions from the
\* start-up state (a record) to the start-up state.
Startup ==
  [ startingGateway |-> startingGateway,
    guildWaitCount |-> guildWaitCount,
    gatewayWaitCount |-> gatewayWaitCount,
    lastGuildTimestamp |-> lastGuildTimestamp,
    timers |-> timers,
    emitted |-> emitted,
    released |-> released,
    calls |-> <<>> ]

clearStartingShardState(s) ==
  [ s EXCEPT !.startingGateway = Undef,
             !.lastGuildTimestamp = Undef,
             !.guildWaitCount = Undef,
             !.timers = IF IsDef(startWithUnavailableGuildsInterval)
                        THEN @ \ {Val(startWithUnavailableGuildsInterval)}
                        ELSE @,
             !.calls = Append(@, "clearStartingShardState") ]

\* this.emit(event, {shard, forced}).  The record of an emitted event keeps
\* what its listeners find when they run: the calls the handler has made
\* before it, and this.startingGateway.
emitEvent(s, event, shard, forced) ==
  [ s EXCEPT !.emitted = Append(@, [ event |-> event, shard |-> shard,
                                     forced |-> forced, calls |-> s.calls,
                                     startingGateway |-> s.startingGateway ]),
             !.calls = Append(@, event) ]

completeStartup(s) ==
  emitEvent(s, "PARACORD_STARTUP_COMPLETE", Undef, FALSE)

completeShardStartup_EmitsFirst(s, forced) ==
  LET r == [ s EXCEPT !.released = @ \cup {Val(s.startingGateway)},
                      !.calls = Append(@, "releaseIdentifyLocks") ]
      shard == r.startingGateway
  IN clearStartingShardState(
       emitEvent(r, "SHARD_STARTUP_COMPLETE", shard, forced))

completeShardStartup(s, forced) ==
  LET r == [ s EXCEPT !.released = @ \cup {Val(s.startingGateway)},
                      !.calls = Append(@, "releaseIdentifyLocks") ]
      shard == r.startingGateway
  IN emitEvent(clearStartingShardState(r), "SHARD_STARTUP_COMPLETE",
               shard, forced)

checkIfDoneStarting(s, forced) ==
  IF IsDef(s.startingGateway) /\ IsDef(s.gatewayWaitCount)
  THEN IF forced \/ s.guildWaitCount = Some(0)
       THEN LET c == completeShardStartup(s, forced)
                d == [ c EXCEPT !.gatewayWaitCount = Some(Val(@) - 1) ]
            IN IF Val(d.gatewayWaitCount) = 0 THEN completeStartup(d) ELSE d
       ELSE IF IsDef(s.guildWaitCount) /\ Val(s.guildWaitCount) < 0
            THEN s
            ELSE [ s EXCEPT !.lastGuildTimestamp = Some(now) ]
  ELSE s

handleReady(s, guilds) ==
  LET r == [ s EXCEPT !.guildWaitCount = Some(guilds) ]
  IN IF guilds = 0
     THEN checkIfDoneStarting(r, FALSE)
     ELSE [ r EXCEPT !.lastGuildTimestamp = Some(now) ]

\* The event function bound to the event name (eventFuncs): READY prepares
\* the start-up counters, the other events only touch the caches.
paracordEvent(s, eventType, guilds) ==
  IF eventType = "READY" THEN handleReady(s, guilds) ELSE s

SetStartup(s) ==
  /\ startingGateway' = s.startingGateway
  /\ guildWaitCount' = s.guildWaitCount
  /\ gatewayWaitCount' = s.gatewayWaitCount
  /\ lastGuildTimestamp' = s.lastGuildTimestamp
  /\ timers' = s.timers
  /\ emitted' = s.emitted
  /\ released' = s.released

\* ------------------------------------------------------------ constructor
\* The fields of init() on a client the constructor has just reset.
NewClient == [ initialized |-> FALSE, api |-> Undef, threw |-> Undef ]

\* The fields of init() on the client as it is.
Client == [ initialized |-> initialized, api |-> api, threw |-> Undef ]

\* setUpApi: a new Api client, told from every one built before it.
setUpApi(previous) == Some(IF IsDef(previous) THEN Val(previous) + 1 ELSE 1)

init_Again(client) ==
  [ initialized |-> TRUE, api |-> setUpApi(client.api), threw |-> Undef ]

\* init(): throws on a client that is initialized already, and otherwise
\* sets up the Api client and marks the client initialized.
init(client) ==
  IF client.initialized
  THEN [ client EXCEPT
           !.threw = Some("Client has already been initialized.") ]
  ELSE [ initialized |-> TRUE, api |-> setUpApi(client.api),
         threw |-> Undef ]

\* The constructor; it calls init() unless the option autoInit is false.
Construct(autoInit) ==
  /\ options \in ParacordOptions
  /\ LET client == IF autoInit # Some(FALSE) THEN init(NewClient)
                   ELSE NewClient
     IN initialized = client.initialized /\ api = client.api
  /\ preventLogin = (IF IsDef(options.preventLogin)
                     THEN Val(options.preventLogin) ELSE FALSE)
  /\ allowEventsDuringStartup = FALSE
  /\ unavailableGuildTolerance = Undef
  /\ unavailableGuildWait = Undef
  /\ gateways = <<>>
  /\ gatewayLoginQueue = <<>>
  /\ safeGatewayIdentifyTimestamp = options.safeGatewayIdentifyTimestamp
  /\ gatewayWaitCount = options.gatewayWaitCount
  /\ startingGateway = Undef
  /\ guildWaitCount = Some(0)
  /\ lastGuildTimestamp = Undef
  /\ startWithUnavailableGuildsInterval = Undef
  /\ timers = {}
  /\ processGatewayQueueInterval = FALSE
  /\ loginState = "none"
  /\ loginOptions = NoLogin
  /\ loginError = Undef
  /\ pendingLogin = Undef
  /\ phase = <<>>
  /\ now = StartTime
  /\ emitted = <<>>
  /\ lastLogin = Undef
  /\ loginFailures = 0
  /\ lastCall = NoCall
  /\ released = {}
  /\ awaited = Undef
  /\ users = <<>> /\ presences = <<>> /\ guildCache = <<>>
  /\ cacheCall = NoCall

\* A client whose environment and login() argument are whatever they turn
\* out to be when login() is called.
\* The constructor without the option autoInit.
Constructor == Construct(Undef)

Init ==
  /\ Constructor
  /\ loginArgs = Undef
  /\ events = Undef /\ listeners = {} /\ lastEmit = Undef
  /\ templates = <<>> /\ rateLimits = <<>> /\ rateCall = NoCall
  /\ globalRateLimit = Undef /\ rpcCall = NoCall

Call(op, ret) == [op |-> op, ret |-> ret]

\* ------------------------------------------------------------------ login
RECURSIVE addNewGateways_AllowsDuplicates(_, _, _)
addNewGateways_AllowsDuplicates(g, spawnShards, spawnCount) ==
  IF spawnShards = <<>> THEN g
  ELSE LET id == Head(spawnShards)
       IN addNewGateways_AllowsDuplicates(
            [ g EXCEPT
                !.gatewayWaitCount =
                   IF Truthy(@) THEN Some(Val(@) + 1) ELSE @,
                !.gateways = Append(@, [ id |-> id,
                                         shard |-> <<id, spawnCount>> ]),
                !.gatewayLoginQueue = Append(@, id) ],
            Tail(spawnShards), spawnCount)

\* addNewGateway for each shard of the plan, in order; a duplicate shard id
\* throws and leaves the gateways added before it in place.
RECURSIVE addNewGateways(_, _, _)
addNewGateways(g, spawnShards, spawnCount) ==
  IF spawnShards = <<>> THEN g
  ELSE LET id == Head(spawnShards)
       IN IF \E i \in DOMAIN g.gateways : g.gateways[i].id = id
          THEN [ g EXCEPT !.threw = TRUE ]
          ELSE addNewGateways(
                 [ g EXCEPT
                     !.gatewayWaitCount =
                        IF Truthy(@) THEN Some(Val(@) + 1) ELSE @,
                     !.gateways = Append(@, [ id |-> id,
                                              shard |-> <<id, spawnCount>> ]),
                     !.gatewayLoginQueue = Append(@, id) ],
                 Tail(spawnShards), spawnCount)

\* The tail of enqueueGateways and of login once the shard plan is known.
SpawnGateways(o, spawnShards, spawnCount) ==
  LET g == addNewGateways([ gateways |-> gateways,
                            gatewayLoginQueue |-> gatewayLoginQueue,
                            gatewayWaitCount |-> gatewayWaitCount,
                            threw |-> FALSE ],
                          spawnShards, spawnCount)
  IN /\ gateways' = g.gateways
     /\ gatewayLoginQueue' = g.gatewayLoginQueue
     /\ gatewayWaitCount' = g.gatewayWaitCount
     /\ phase' = [ id \in { g.gateways[i].id : i \in DOMAIN g.gateways } |->
                     IF id \in DOMAIN phase THEN phase[id] ELSE "idle" ]
     /\ IF g.threw
        THEN /\ loginState' = "failed"
             /\ loginError' = Some("duplicate shard id")
             /\ UNCHANGED allowEventsDuringStartup
        ELSE /\ loginState' = "done"
             /\ loginError' = Undef
             /\ allowEventsDuringStartup' =
                  (IF IsDef(o.allowEventsDuringStartup)
                   THEN Val(o.allowEventsDuringStartup) ELSE FALSE)

LoginThrows(message) ==
  /\ loginState' = "failed"
  /\ loginError' = Some(message)
  /\ UNCHANGED <<gateways, gatewayLoginQueue, gatewayWaitCount, phase,
                 allowEventsDuringStartup>>

AllShards_FromOne(n) == [ i \in 1..n |-> i ]

AllShards(n) == [ i \in 1..n |-> i - 1 ]

InjectShardSettings_AsDefaults(env, o) ==
  IF IsDef(env.PARACORD_SHARD_IDS)
  THEN LET ids == split(Val(env.PARACORD_SHARD_IDS))
       IN [ o EXCEPT
              !.shards = IF IsDef(@) THEN @
                         ELSE Some([ i \in DOMAIN ids |-> Number(ids[i]) ]),
              !.shardCount = IF IsDef(@) THEN @
                             ELSE Some(Number(Val(env.PARACORD_SHARD_COUNT))) ]
  ELSE o

\* The shard settings login() injects from the environment.
InjectShardSettings(env, o) ==
  IF IsDef(env.PARACORD_SHARD_IDS)
  THEN LET ids == split(Val(env.PARACORD_SHARD_IDS))
       IN [ o EXCEPT
              !.shards = Some([ i \in DOMAIN ids |-> Number(ids[i]) ]),
              !.shardCount = Some(Number(Val(env.PARACORD_SHARD_COUNT))) ]
  ELSE o

ExceedsShardCount_OffByOne(o) ==
  /\ IsDef(o.shards) /\ IsDef(o.shardCount)
  /\ \E i \in DOMAIN Val(o.shards) :
        Val(o.shards)[i] > Val(o.shardCount)

\* The check of the shard ids against the count in enqueueGateways.
ExceedsShardCount(o) ==
  /\ IsDef(o.shards) /\ IsDef(o.shardCount)
  /\ \E i \in DOMAIN Val(o.shards) :
        Val(o.shards)[i] + 1 > Val(o.shardCount)

Login(env, arg) ==
  /\ loginState = "none"
  /\ loginArgs \in {Undef, Some([ env |-> env, options |-> arg ])}
  /\ LET client == IF ~initialized THEN init(Client) ELSE Client
     IN initialized' = client.initialized /\ api' = client.api
  /\ LET o == InjectShardSettings(env, arg)
     IN /\ loginOptions' = (IF ~IsDef(o.shards) /\ ~IsDef(o.shardCount)
                            THEN o ELSE NoLogin)
        /\ unavailableGuildTolerance' = o.unavailableGuildTolerance
        /\ unavailableGuildWait' = o.unavailableGuildWait
        /\ processGatewayQueueInterval' = TRUE
        /\ lastCall' = NoCall
        /\ IF ExceedsShardCount(o)
           THEN LoginThrows("shard id exceeds max shard id")
           ELSE IF IsDef(o.shards) /\ ~IsDef(o.shardCount)
           THEN LoginThrows("shards defined with no shardCount.")
           ELSE IF ~IsDef(o.shardCount)
           THEN /\ loginState' = "awaitingApi"
                /\ UNCHANGED <<gateways, gatewayLoginQueue, gatewayWaitCount,
                               phase, allowEventsDuringStartup, loginError>>
           ELSE SpawnGateways(o, IF IsDef(o.shards) THEN Val(o.shards)
                              ELSE AllShards(Val(o.shardCount)),
                              Val(o.shardCount))
  /\ UNCHANGED <<emitterVars, rateLimitVars, rpcVars, cacheVars, options, loginArgs,
                 preventLogin,
                 safeGatewayIdentifyTimestamp, startingGateway, guildWaitCount,
                 lastGuildTimestamp, startWithUnavailableGuildsInterval,
                 timers, pendingLogin, now, emitted, lastLogin,
                 loginFailures, released>>
  /\ UNCHANGED awaited

\* The reply to GET gateway/bot awaited by computeShards.
GatewayBotResponse(status, recommendedShards) ==
  /\ loginState = "awaitingApi"
  /\ loginOptions' = NoLogin
  /\ lastCall' = NoCall
  /\ IF status = 200
     THEN SpawnGateways(loginOptions, AllShards(recommendedShards),
                        recommendedShards)
     ELSE LoginThrows("shards ids or shard count are invalid")
  /\ UNCHANGED <<emitterVars, rateLimitVars, rpcVars, cacheVars, options, loginArgs,
                 initialized, api, preventLogin,
                 unavailableGuildTolerance,
                 unavailableGuildWait, safeGatewayIdentifyTimestamp,
                 startingGateway, guildWaitCount, lastGuildTimestamp,
                 startWithUnavailableGuildsInterval, timers,
                 processGatewayQueueInterval, pendingLogin, now,
                 emitted, lastLogin, loginFailures, released>>
  /\ UNCHANGED awaited

\* ------------------------------------------------------- the login tick
\* One firing of the 1 s interval: processGatewayQueue up to its await.
CanDequeue(t) ==
  /\ ~preventLogin
  /\ Len(gatewayLoginQueue) # 0
  /\ startingGateway = Undef
  /\ safeGatewayIdentifyTimestamp # Undef
  /\ t > Val(safeGatewayIdentifyTimestamp)

\* One firing of the login interval, a second after the last one; the clock
\* stops at maxTime.
processGatewayQueueUntil(maxTime) ==
  /\ processGatewayQueueInterval
  /\ now' = IF now + SECOND_IN_MILLISECONDS <= maxTime
            THEN now + SECOND_IN_MILLISECONDS ELSE now
  /\ lastCall' = NoCall
  /\ IF CanDequeue(now')
     THEN LET gateway == Head(gatewayLoginQueue)
          IN /\ gatewayLoginQueue' = Tail(gatewayLoginQueue)
             /\ safeGatewayIdentifyTimestamp' = Some(IDENTIFY_BUFFER)
             /\ startingGateway' = Some(gateway)
             /\ pendingLogin' = Append(pendingLogin, [ gateway |-> gateway,
                   unavailableGuildTolerance |-> unavailableGuildTolerance,
                   unavailableGuildWait |-> unavailableGuildWait ])
             /\ phase' = [ phase EXCEPT ![gateway] = "loggingIn" ]
             /\ lastLogin' = Some(gateway)
     ELSE /\ UNCHANGED <<gatewayLoginQueue, safeGatewayIdentifyTimestamp,
                         startingGateway, pendingLogin, phase, lastLogin>>
  /\ UNCHANGED <<emitterVars, rateLimitVars, rpcVars, cacheVars, options, loginArgs,
                 loginError, initialized, api, preventLogin,
                 allowEventsDuringStartup,
                 unavailableGuildTolerance, unavailableGuildWait, gateways,
                 gatewayWaitCount, guildWaitCount, lastGuildTimestamp,
                 startWithUnavailableGuildsInterval, timers,
                 processGatewayQueueInterval, loginState, loginOptions,
                 emitted, loginFailures, released>>
  /\ awaited' = IF startingGateway' = startingGateway THEN awaited ELSE Undef

processGatewayQueue == processGatewayQueueUntil(MaxTime)

\* The awaits still pending once the k-th has settled.
RemoveAt(pending, k) ==
  SubSeq(pending, 1, k - 1) \o SubSeq(pending, k + 1, Len(pending))

\* gateway.login() resolved in one of the calls awaiting it: the rest of the
\* try block.
LoginResolved ==
  \E k \in DOMAIN pendingLogin :
  /\ LET p == pendingLogin[k]
     IN /\ pendingLogin' = RemoveAt(pendingLogin, k)
        /\ phase' = [ phase EXCEPT ![p.gateway] = "identifying" ]
        /\ IF Truthy(p.unavailableGuildTolerance)
              /\ Truthy(p.unavailableGuildWait)
           THEN /\ startWithUnavailableGuildsInterval' = Some(p.gateway)
                /\ timers' = timers \cup {p.gateway}
           ELSE UNCHANGED <<startWithUnavailableGuildsInterval, timers>>
        /\ lastCall' = NoCall
  /\ UNCHANGED <<emitterVars, rateLimitVars, rpcVars, cacheVars, options, loginArgs,
                 loginError, initialized, api, preventLogin,
                 allowEventsDuringStartup,
                 unavailableGuildTolerance, unavailableGuildWait, gateways,
                 gatewayLoginQueue, safeGatewayIdentifyTimestamp,
                 gatewayWaitCount, startingGateway, guildWaitCount,
                 lastGuildTimestamp, processGatewayQueueInterval, loginState,
                 loginOptions, now, emitted, lastLogin, loginFailures,
                 released>>
  /\ UNCHANGED awaited

\* gatewayLoginQueue.unshift(gateway)
unshift(queue, gateway) == <<gateway>> \o queue

\* What a rejected gateway.login() throws: a failure of the transport, or one
\* of the terminal refusals of the service.
TerminalErrors == {"AuthFailed", "InvalidShard", "DisallowedIntent"}
LoginErrors == {"TransportClosed"} \cup TerminalErrors

catchLoginError_KeepsStartingState(gateway) ==
  [ state |-> Startup,
    gatewayLoginQueue |-> unshift(gatewayLoginQueue, gateway) ]

\* The catch block of processGatewayQueue for the gateway whose login()
\* rejected: the start-up state and the login queue it leaves.
catchLoginError(gateway) ==
  [ state |-> clearStartingShardState(Startup),
    gatewayLoginQueue |-> unshift(gatewayLoginQueue, gateway) ]

\* gateway.login() rejected with `err` in one of the calls awaiting it: the
\* catch block, which reads nothing of `err` but its message.  At most
\* maxFailures logins reject.
LoginRejectedWithin(err, maxFailures) ==
  \E k \in DOMAIN pendingLogin :
  /\ loginFailures < maxFailures
  /\ LET p == pendingLogin[k]
     IN /\ pendingLogin' = RemoveAt(pendingLogin, k)
        /\ SetStartup(catchLoginError(p.gateway).state)
        /\ gatewayLoginQueue' = catchLoginError(p.gateway).gatewayLoginQueue
        /\ phase' = [ phase EXCEPT ![p.gateway] = "idle" ]
        /\ lastCall' = NoCall
  /\ loginFailures' = loginFailures + 1
  /\ UNCHANGED <<emitterVars, rateLimitVars, rpcVars, cacheVars, options, loginArgs,
                 loginError, initialized, api, preventLogin,
                 allowEventsDuringStartup,
                 unavailableGuildTolerance, unavailableGuildWait, gateways,
                 safeGatewayIdentifyTimestamp,
                 startWithUnavailableGuildsInterval,
                 processGatewayQueueInterval, loginState, loginOptions, now,
                 lastLogin>>
  /\ awaited' = IF startingGateway' = startingGateway THEN awaited ELSE Undef

LoginRejected(err) == LoginRejectedWithin(err, MaxLoginFailures)

\* -------------------------------------------------- the force-start timer
startWithUnavailableGuilds_AnyTimer(gateway) ==
  LET withinTolerance ==
        /\ IsDef(guildWaitCount)
        /\ Val(guildWaitCount) <= Val(unavailableGuildTolerance)
      timedOut ==
        /\ IsDef(lastGuildTimestamp)
        /\ Val(lastGuildTimestamp)
             + Val(unavailableGuildWait) * SECOND_IN_MILLISECONDS < now
  IN IF IsDef(startingGateway) /\ withinTolerance /\ timedOut
     THEN checkIfDoneStarting(Startup, TRUE)
     ELSE Startup

\* The start-up state one call of the interval's callback leaves.
startWithUnavailableGuilds(gateway) ==
  LET withinTolerance ==
        /\ IsDef(guildWaitCount)
        /\ Val(guildWaitCount) <= Val(unavailableGuildTolerance)
      timedOut ==
        /\ IsDef(lastGuildTimestamp)
        /\ Val(lastGuildTimestamp)
             + Val(unavailableGuildWait) * SECOND_IN_MILLISECONDS < now
  IN IF startingGateway = Some(gateway) /\ withinTolerance /\ timedOut
     THEN checkIfDoneStarting(Startup, TRUE)
     ELSE Startup

\* One firing of the interval armed for `gateway`.
TimerFired(gateway) ==
  /\ gateway \in timers
  /\ SetStartup(startWithUnavailableGuilds(gateway))
  /\ lastCall' = NoCall
  /\ UNCHANGED <<emitterVars, rateLimitVars, rpcVars, cacheVars, options, loginArgs,
                 loginError, initialized, api, preventLogin,
                 allowEventsDuringStartup,
                 unavailableGuildTolerance, unavailableGuildWait, gateways,
                 gatewayLoginQueue, safeGatewayIdentifyTimestamp,
                 startWithUnavailableGuildsInterval,
                 processGatewayQueueInterval, loginState, loginOptions,
                 pendingLogin, phase, now, lastLogin, loginFailures>>
  /\ awaited' = IF startingGateway' = startingGateway THEN awaited ELSE Undef

\* ---------------------------------------------------------- gateway events
\* What eventHandler returns: the transformed payload (`emit`), the raw
\* payload (`data`), or undefined.
Forwarded(ret) == ret \in {"emit", "data"}

eventHandler_AnyShard(eventType, guilds, shard) ==
  LET e == paracordEvent(Startup, eventType, guilds)
  IN IF IsDef(e.startingGateway) /\ IsDef(e.guildWaitCount)
     THEN IF eventType = "GUILD_CREATE"
          THEN [ state |-> checkIfDoneStarting(
                             [ e EXCEPT !.guildWaitCount = Some(Val(@) - 1) ],
                             FALSE),
                 ret |-> "undefined" ]
          ELSE [ state |-> e,
                 ret |-> IF allowEventsDuringStartup
                         THEN "data" ELSE "undefined" ]
     ELSE [ state |-> e, ret |-> "emit" ]

eventHandler_GuildCreateFlagged(eventType, guilds, shard) ==
  LET e == paracordEvent(Startup, eventType, guilds)
  IN IF e.startingGateway = Some(shard) /\ IsDef(e.guildWaitCount)
     THEN [ state |-> IF eventType = "GUILD_CREATE"
                      THEN checkIfDoneStarting(
                             [ e EXCEPT !.guildWaitCount = Some(Val(@) - 1) ],
                             FALSE)
                      ELSE e,
            ret |-> IF allowEventsDuringStartup THEN "data" ELSE "undefined" ]
     ELSE [ state |-> e, ret |-> "emit" ]

eventHandler_AlwaysSuppress(eventType, guilds, shard) ==
  LET e == paracordEvent(Startup, eventType, guilds)
  IN IF e.startingGateway = Some(shard) /\ IsDef(e.guildWaitCount)
     THEN [ state |-> IF eventType = "GUILD_CREATE"
                      THEN checkIfDoneStarting(
                             [ e EXCEPT !.guildWaitCount = Some(Val(@) - 1) ],
                             FALSE)
                      ELSE e,
            ret |-> "undefined" ]
     ELSE [ state |-> e, ret |-> "emit" ]

eventHandler(eventType, guilds, shard) ==
  LET e == paracordEvent(Startup, eventType, guilds)
  IN IF e.startingGateway = Some(shard) /\ IsDef(e.guildWaitCount)
     THEN IF eventType = "GUILD_CREATE"
          THEN [ state |-> checkIfDoneStarting(
                             [ e EXCEPT !.guildWaitCount = Some(Val(@) - 1) ],
                             FALSE),
                 ret |-> "undefined" ]
          ELSE [ state |-> e,
                 ret |-> IF allowEventsDuringStartup
                         THEN "data" ELSE "undefined" ]
     ELSE [ state |-> e, ret |-> "emit" ]

\* The gateway shard's state machine: a shard dispatches READY once it has
\* logged in and identified (again after a re-identify), and other events
\* only after its READY.
Dispatches(eventType, shard) ==
  /\ shard \in DOMAIN phase
  /\ IF eventType = "READY"
     THEN phase[shard] \in {"identifying", "active"}
     ELSE phase[shard] = "active"

\* The numbers of guilds the payload of a dispatch lists: a READY lists no
\* guild, one or MaxGuilds of them, the handlers read nothing of other
\* payloads.
Guilds(eventType) == IF eventType = "READY" THEN {0, 1, MaxGuilds} ELSE {0}

\* An observer of the starting shard's own dispatches, kept in the runs of
\* ObservedSpec: the guilds the shard's READY listed that no GUILD_CREATE of
\* its own has brought yet, and the time of the last of these events, once
\* this dispatch is handled.
awaitedAfter(eventType, guilds, shard) ==
  IF startingGateway' = Undef THEN Undef
  ELSE IF startingGateway # Some(shard) THEN awaited
  ELSE IF eventType = "READY" THEN Some([ guilds |-> guilds, at |-> now ])
  ELSE IF eventType = "GUILD_CREATE" /\ IsDef(awaited)
  THEN Some([ guilds |-> IF Val(awaited).guilds > 0
                         THEN Val(awaited).guilds - 1 ELSE 0,
              at |-> now ])
  ELSE awaited

\* A dispatch of the gateway of `shard` reaches the client.
HandleDispatch(eventType, guilds, shard) ==
  /\ Dispatches(eventType, shard)
  /\ guilds \in Guilds(eventType)
  /\ eventType = "GUILD_CREATE" /\ startingGateway = Some(shard)
       /\ IsDef(guildWaitCount) => Val(guildWaitCount) > -MaxGuilds
  /\ LET r == eventHandler(eventType, guilds, shard)
     IN /\ SetStartup(r.state)
        /\ lastCall' = Call("eventHandler", r.ret)
  /\ phase' = [ phase EXCEPT ![shard] = "active" ]
  /\ UNCHANGED <<emitterVars, rateLimitVars, rpcVars, cacheVars, options, loginArgs,
                 loginError, initialized, api, preventLogin,
                 allowEventsDuringStartup,
                 unavailableGuildTolerance, unavailableGuildWait, gateways,
                 gatewayLoginQueue, safeGatewayIdentifyTimestamp,
                 startWithUnavailableGuildsInterval,
                 processGatewayQueueInterval, loginState, loginOptions,
                 pendingLogin, now, lastLogin, loginFailures>>

GatewayEvent(eventType, guilds, shard) ==
  /\ HandleDispatch(eventType, guilds, shard)
  /\ UNCHANGED awaited

GatewayEventObserved(eventType, guilds, shard) ==
  /\ HandleDispatch(eventType, guilds, shard)
  /\ awaited' = awaitedAfter(eventType, guilds, shard)

\* ---------------------------------------------------------- specification
Next ==
  \/ /\ loginState = "none"
     /\ \E i \in LoginInputs : Login(i.env, i.options)
  \/ \E status \in {200, 500}, n \in 1..MaxShards :
        GatewayBotResponse(status, n)
  \/ processGatewayQueue
  \/ LoginResolved
  \/ \E err \in LoginErrors : LoginRejected(err)
  \/ \E g \in ShardIds : TimerFired(g)
  \/ \E t \in EventTypes, g \in ShardIds :
        \E n \in Guilds(t) : GatewayEvent(t, n, g)

Spec == Init /\ [][Next]_vars

\* The user calls init().
CallInit ==
  /\ LET client == init(Client)
     IN /\ initialized' = client.initialized
        /\ api' = client.api
        /\ lastCall' = Call("init", client.threw)
  /\ UNCHANGED <<emitterVars, rateLimitVars, rpcVars, cacheVars, options, loginArgs,
                 preventLogin, allowEventsDuringStartup,
                 unavailableGuildTolerance, unavailableGuildWait, gateways,
                 gatewayLoginQueue, safeGatewayIdentifyTimestamp,
                 gatewayWaitCount, startingGateway, guildWaitCount,
                 lastGuildTimestamp, startWithUnavailableGuildsInterval,
                 timers, processGatewayQueueInterval, loginState,
                 loginOptions, loginError, pendingLogin, phase, now, emitted,
                 lastLogin, loginFailures, released, awaited>>

\* The values of the constructor's option autoInit.
AutoInits == {Undef, Some(FALSE), Some(TRUE)}

\* A client constructed with any options and any autoInit.
AutoInitInit ==
  /\ \E autoInit \in AutoInits : Construct(autoInit)
  /\ loginArgs = Undef
  /\ events = Undef /\ listeners = {} /\ lastEmit = Undef
  /\ templates = <<>> /\ rateLimits = <<>> /\ rateCall = NoCall
  /\ globalRateLimit = Undef /\ rpcCall = NoCall

AutoInitNext ==
  \/ CallInit
  \/ /\ loginState = "none"
     /\ \E i \in LoginInputs : Login(i.env, i.options)
  \/ \E status \in {200, 500}, n \in 1..MaxShards :
        GatewayBotResponse(status, n)

\* init() and login() on a client constructed with or without autoInit.
AutoInitSpec == AutoInitInit /\ [][AutoInitNext]_vars

\* The same program with the observer of the starting shard's dispatches.
ObservedNext ==
  \/ /\ loginState = "none"
     /\ \E i \in LoginInputs : Login(i.env, i.options)
  \/ \E status \in {200, 500}, n \in 1..MaxShards :
        GatewayBotResponse(status, n)
  \/ processGatewayQueue
  \/ LoginResolved
  \/ \E err \in LoginErrors : LoginRejected(err)
  \/ \E g \in ShardIds : TimerFired(g)
  \/ \E t \in EventTypes, g \in ShardIds :
        \E n \in Guilds(t) : GatewayEventObserved(t, n, g)

ObservedSpec == Init /\ [][ObservedNext]_vars

\* A client that counts its gateways and waits for unavailable guilds logs
\* in with the three shards of a count of three: force-start timers of
\* several shards are armed one after the other.
TimerOptions ==
  [ safeGatewayIdentifyTimestamp |-> Some(0),
    gatewayWaitCount |-> Some(1),
    preventLogin |-> Undef ]

TimerLogin ==
  [ unavailableGuildTolerance |-> Some(1),
    unavailableGuildWait |-> Some(1),
    allowEventsDuringStartup |-> Undef,
    shards |-> Undef,
    shardCount |-> Some(3) ]

TimerInit == options = TimerOptions /\ Init

TimerNext ==
  \/ Login(NoEnv, TimerLogin)
  \/ processGatewayQueue
  \/ LoginResolved
  \/ \E err \in LoginErrors : LoginRejected(err)
  \/ \E g \in ShardIds : TimerFired(g)
  \/ \E t \in EventTypes, g \in ShardIds :
        \E n \in Guilds(t) : GatewayEvent(t, n, g)

TimerSpec == TimerInit /\ [][TimerNext]_vars

\* The same client without a tolerance, its logins rejected up to
\* RetryLoginFailures times within RetryTicks seconds: a shard is dequeued
\* again and again while the shards behind it wait in the queue.
RetryLogin ==
  [ TimerLogin EXCEPT !.unavailableGuildTolerance = Undef,
                      !.unavailableGuildWait = Undef ]

RetryNext ==
  \/ Login(NoEnv, RetryLogin)
  \/ processGatewayQueueUntil(StartTime + RetryTicks * SECOND_IN_MILLISECONDS)
  \/ LoginResolved
  \/ \E err \in LoginErrors : LoginRejectedWithin(err, RetryLoginFailures)
  \/ \E t \in EventTypes, g \in ShardIds :
        \E n \in Guilds(t) : GatewayEvent(t, n, g)

RetrySpec == TimerInit /\ [][RetryNext]_vars

\* The timers and promises of the event loop eventually run; the gateway's
\* dispatches are the environment's and carry no fairness.
FairSpec ==
  /\ Spec
  /\ WF_vars(processGatewayQueue)
  /\ WF_vars(LoginResolved \/ \E err \in LoginErrors : LoginRejected(err))
  /\ WF_vars(\E status \in {200, 500}, n \in 1..MaxShards :
                GatewayBotResponse(status, n))
  /\ WF_vars(\E g \in ShardIds : TimerFired(g))

\* The shard planning of login() alone, for a client whose environment and
\* login() argument are fixed beforehand.
PlanInit ==
  /\ options = DefaultOptions
  /\ Constructor
  /\ loginArgs \in { Some(i) : i \in LoginInputs }
  /\ events = Undef /\ listeners = {} /\ lastEmit = Undef
  /\ templates = <<>> /\ rateLimits = <<>> /\ rateCall = NoCall
  /\ globalRateLimit = Undef /\ rpcCall = NoCall

PlanNext ==
  \/ Login(Val(loginArgs).env, Val(loginArgs).options)
  \/ \E status \in {200, 500}, n \in 1..MaxShards :
        GatewayBotResponse(status, n)

PlanSpec == PlanInit /\ [][PlanNext]_vars

\* ---------------------------------------------------------------- emitter
MaxListeners == 1

EventNames == {"READY", "GUILD_CREATE", "guildCreate"}

\* options.events: no remap, or new names for some of the event names.
UserEvents ==
  {Undef} \cup { Some(m) : m \in UNION { [D -> EventNames] :
                                           D \in SUBSET EventNames } }

\* A registration of a listener under a name.
Registrations == [ name : EventNames, listener : 1..MaxListeners ]

\* EventEmitter.on
On(name, listener) ==
  /\ [ name |-> name, listener |-> listener ] \notin listeners
  /\ listeners' = listeners \cup {[ name |-> name, listener |-> listener ]}
  /\ lastEmit' = Undef
  /\ UNCHANGED <<paracordVars, cacheVars, now, rateLimitVars, rpcVars, events>>

\* EventEmitter.emit: for each registration, the argument lists its listener
\* is called with.
superEmit(name, args) ==
  [ r \in listeners |-> IF r.name = name THEN <<args>> ELSE <<>> ]

emit_UnderBothNames(event, args) ==
  IF ~IsDef(events) \/ event \notin DOMAIN Val(events)
  THEN superEmit(event, args)
  ELSE [ r \in listeners |->
           superEmit(event, args)[r] \o superEmit(Val(events)[event], args)[r] ]

emit(event, args) ==
  IF ~IsDef(events) \/ event \notin DOMAIN Val(events)
  THEN superEmit(event, args)
  ELSE superEmit(Val(events)[event], args)

Emit(event, args) ==
  /\ lastEmit' = Some([ event |-> event, args |-> args,
                        calls |-> emit(event, args) ])
  /\ UNCHANGED <<paracordVars, cacheVars, now, rateLimitVars, rpcVars, events, listeners>>

\* A client constructed with a remap, its listeners and the events emitted
\* on it.
EmitInit ==
  /\ options = DefaultOptions
  /\ Constructor
  /\ loginArgs = Undef
  /\ events \in UserEvents /\ listeners = {} /\ lastEmit = Undef
  /\ templates = <<>> /\ rateLimits = <<>> /\ rateCall = NoCall
  /\ globalRateLimit = Undef /\ rpcCall = NoCall

EmitNext ==
  \/ \E r \in Registrations : On(r.name, r.listener)
  \/ \E event \in EventNames, args \in {1, 2} : Emit(event, args)

EmitSpec == EmitInit /\ [][EmitNext]_vars

\* ------------------------------------------------------ rate limit templates
MaxLimit == 2

Buckets == {"a", "b"}

\* The state parsed from the rate limit headers of a response; the bucket
\* header may be missing.
RateLimitHeaders ==
  [ bucket : {Undef} \cup { Some(b) : b \in Buckets },
    limit : 1..MaxLimit,
    resetAfter : {SECOND_IN_MILLISECONDS, 2 * SECOND_IN_MILLISECONDS} ]

\* new RateLimitTemplate(state): the limit and the resetAfter observed.
RateLimitTemplate(state) ==
  [ limit |-> state.limit, resetAfter |-> state.resetAfter ]

\* RateLimitTemplate.update(state): the limit and the resetAfter observed
\* last.
update(template, state) ==
  [ template EXCEPT !.limit = state.limit, !.resetAfter = state.resetAfter ]

\* Map.prototype.set
MapSet(map, key, value) ==
  [ k \in DOMAIN map \cup {key} |-> IF k = key THEN value ELSE map[k] ]

\* RateLimitTemplateMap.upsert: the map after the call and the template
\* returned.  The map is keyed by state.bucket as it is.
upsert(state) ==
  LET bucket == state.bucket
  IN IF bucket \notin DOMAIN templates
     THEN [ map |-> MapSet(templates, bucket, RateLimitTemplate(state)),
            ret |-> RateLimitTemplate(state) ]
     ELSE [ map |-> [ templates EXCEPT ![bucket] = update(@, state) ],
            ret |-> update(templates[bucket], state) ]

TemplateUpsert(state) ==
  /\ templates' = upsert(state).map
  /\ rateCall' = [ op |-> "upsert", arg |-> state, before |-> templates,
                   ret |-> upsert(state).ret ]
  /\ UNCHANGED <<paracordVars, cacheVars, now, emitterVars, rpcVars, rateLimits>>

\* A JavaScript value that is a number or a string.
JsNumber(n) == [ type |-> "number", value |-> n ]

JsString(chars) == [ type |-> "string", value |-> chars ]

\* Date.prototype.toString: a rendering of the date as text.
DateToString(t) == <<"D", "a", "t", "e", " ">> \o DecimalString(t)

\* new Date() + n: both operands become primitives, the Date a string, and
\* the operator concatenates.
DatePlus(t, n) == JsString(DateToString(t) \o DecimalString(n))

\* RateLimitTemplateMap.createAssumedRateLimit: the state and the template
\* handed to new RateLimit, or undefined.
createAssumedRateLimit(bucket) ==
  IF Some(bucket) \in DOMAIN templates
  THEN LET template == templates[Some(bucket)]
       IN Some([ remaining |-> template.limit,
                 resetTimestamp |-> DatePlus(now, template.resetAfter),
                 limit |-> template.limit,
                 resetAfter |-> 0,
                 template |-> template ])
  ELSE Undef

CreateAssumedRateLimit(bucket) ==
  /\ rateCall' = [ op |-> "createAssumedRateLimit", arg |-> bucket,
                   before |-> templates,
                   ret |-> createAssumedRateLimit(bucket) ]
  /\ UNCHANGED <<paracordVars, cacheVars, now, emitterVars, rpcVars, templates, rateLimits>>

TemplateNext ==
  \/ \E state \in RateLimitHeaders : TemplateUpsert(state)
  \/ \E bucket \in Buckets : CreateAssumedRateLimit(bucket)

\* The template store alone, on a client that does nothing else.
TemplateInit == options = DefaultOptions /\ Init

TemplateSpec == TemplateInit /\ [][TemplateNext]_vars

\* ------------------------------------------------------------ rate limits
RateLimitKeys == {"k1", "k2"}

\* The two builds of RateLimitMap in the sources.
Builds == {"RateLimitTemplateMap.ts", "part_002"}

\* The state a rate limit is created or updated with at the present time.
RateLimitStates ==
  [ remaining : {1}, limit : {1}, resetTimestamp : {now},
    resetAfter : {0, SECOND_IN_MILLISECONDS \div 2} ]

\* new RateLimit(state, template): a budget that may be evicted after
\* resetTimestamp + 2 * resetAfter.
RateLimit(state) ==
  [ remaining |-> state.remaining, limit |-> state.limit,
    resetTimestamp |-> state.resetTimestamp,
    expires |-> state.resetTimestamp + 2 * state.resetAfter ]

\* RateLimit.assignIfStricter(state): the lower remaining and the later
\* resetTimestamp win; the expiry is set anew.
assignIfStricter(rateLimit, state) ==
  [ rateLimit EXCEPT
      !.remaining = IF state.remaining < @ THEN state.remaining ELSE @,
      !.resetTimestamp = IF state.resetTimestamp > @
                         THEN state.resetTimestamp ELSE @,
      !.expires = state.resetTimestamp + 2 * state.resetAfter ]

\* RateLimitMap.upsert.  On a new key one build returns the rate limit it
\* stored and the other the undefined it found.
RateLimitMapUpsert(build, rateLimitKey, state) ==
  /\ IF rateLimitKey \notin DOMAIN rateLimits
     THEN /\ rateLimits' = MapSet(rateLimits, rateLimitKey, RateLimit(state))
          /\ rateCall' = [ op |-> "RateLimitMap.upsert",
                           arg |-> rateLimitKey, before |-> rateLimits,
                           ret |-> IF build = "part_002" THEN Undef
                                   ELSE Some(RateLimit(state)) ]
     ELSE /\ rateLimits' = [ rateLimits EXCEPT ![rateLimitKey] =
                                               assignIfStricter(@, state) ]
          /\ rateCall' = [ op |-> "RateLimitMap.upsert",
                           arg |-> rateLimitKey, before |-> rateLimits,
                           ret |-> Some(assignIfStricter(
                                          rateLimits[rateLimitKey], state)) ]
  /\ UNCHANGED <<paracordVars, cacheVars, now, emitterVars, rpcVars, templates>>

sweepExpiredRateLimits_AtExpiry ==
  [ key \in { k \in DOMAIN rateLimits : ~(rateLimits[k].expires <= now) } |->
      rateLimits[key] ]

\* The map after RateLimitMap.sweepExpiredRateLimits.
sweepExpiredRateLimits ==
  [ key \in { k \in DOMAIN rateLimits : ~(rateLimits[k].expires < now) } |->
      rateLimits[key] ]

SweepExpiredRateLimits ==
  /\ rateLimits' = sweepExpiredRateLimits
  /\ rateCall' = [ op |-> "sweepExpiredRateLimits", arg |-> now,
                   before |-> rateLimits, ret |-> Undef ]
  /\ UNCHANGED <<paracordVars, cacheVars, now, emitterVars, rpcVars, templates>>

\* Time passes.
Elapse ==
  /\ now + SECOND_IN_MILLISECONDS <= MaxTime
  /\ now' = now + SECOND_IN_MILLISECONDS
  /\ rateCall' = NoCall
  /\ rpcCall' = NoCall
  /\ UNCHANGED <<paracordVars, cacheVars, emitterVars, globalRateLimit, templates,
                 rateLimits>>

SweepNext ==
  \/ \E build \in Builds, key \in RateLimitKeys, state \in RateLimitStates :
        RateLimitMapUpsert(build, key, state)
  \/ SweepExpiredRateLimits
  \/ Elapse

\* The rate limit map alone, on a client that does nothing else.
SweepSpec == TemplateInit /\ [][SweepNext]_vars

\* ------------------------------------------------- the rate limit service
\* The requests the clients of the service ask about.
Requests ==
  { [ method |-> "GET", url |-> "channels/1" ],
    [ method |-> "POST", url |-> "channels/1/messages" ] }

\* RateLimitStateMessage.fromProto(call.request): the message of an Update
\* call; the bucket id may be missing.
RateLimitStateMessages ==
  [ requestMeta : Requests,
    global : BOOLEAN,
    bucket : {Undef} \cup { Some(b) : b \in Buckets },
    limit : 1..MaxLimit,
    remaining : {0},
    resetAfter : {SECOND_IN_MILLISECONDS, 2 * SECOND_IN_MILLISECONDS} ]

\* What a call made inside a handler's try block does: it returns a value
\* or it throws.
Returned(value) == [ threw |-> FALSE, value |-> value ]

Thrown(err) == [ threw |-> TRUE, value |-> err ]

\* rateLimitCache.update(request, rateLimitHeaders): the global bucket after
\* the call.  With `global` set the bucket cools down for resetAfter.
cacheUpdate(rateLimitHeaders) ==
  IF rateLimitHeaders.global
  THEN Some(now + rateLimitHeaders.resetAfter)
  ELSE globalRateLimit

\* rateLimitCache.authorizeRequestFromClient(request): 0 when the request
\* may proceed, the rest of the global bucket's cool-down otherwise.
authorizeRequestFromClient(request) ==
  IF IsDef(globalRateLimit) /\ Val(globalRateLimit) > now
  THEN Val(globalRateLimit) - now
  ELSE 0

\* new AuthorizationMessage(resetAfter).proto
AuthorizationProto(resetAfter) == [ reset_after |-> resetAfter ]

\* The arguments a handler passes to its callback.
Callback(err, message) == [ err |-> err, message |-> message ]

\* The Update handler with `message` parsed from the call.
update_rpc(message) ==
  IF message.bucket # Undef
  THEN [ reached |-> TRUE,
         globalRateLimit |-> cacheUpdate(
             [ global |-> message.global, bucket |-> Val(message.bucket),
               limit |-> message.limit, remaining |-> message.remaining,
               resetAfter |-> message.resetAfter ]),
         templates |-> upsert([ bucket |-> message.bucket,
                                limit |-> message.limit,
                                resetAfter |-> message.resetAfter ]).map,
         reply |-> Callback(Undef, Undef) ]
  ELSE [ reached |-> FALSE,
         globalRateLimit |-> globalRateLimit,
         templates |-> templates,
         reply |-> Callback(Undef, Undef) ]

\* One Update call; `parsed` is what fromProto does with the call's request.
Update(parsed) ==
  /\ LET r == IF parsed.threw
              THEN [ reached |-> FALSE, globalRateLimit |-> globalRateLimit,
                     templates |-> templates,
                     reply |-> Callback(Some(parsed.value), Undef) ]
              ELSE update_rpc(parsed.value)
     IN /\ globalRateLimit' = r.globalRateLimit
        /\ templates' = r.templates
        /\ rpcCall' = [ op |-> "update", arg |-> parsed,
                        reached |-> r.reached, reply |-> r.reply ]
  /\ rateCall' = NoCall
  /\ UNCHANGED <<paracordVars, cacheVars, now, emitterVars, rateLimits>>

authorize_GrantsOnError(result) ==
  IF result.threw
  THEN Callback(Undef, Some(AuthorizationProto(0)))
  ELSE Callback(Undef, Some(AuthorizationProto(result.value)))

\* The Authorize handler, given what authorizeRequestFromClient did.
authorize(result) ==
  IF result.threw
  THEN Callback(Some(result.value), Undef)
  ELSE Callback(Undef, Some(AuthorizationProto(result.value)))

\* One Authorize call for `request`; the cache answers or fails.
Authorize(request, fails) ==
  /\ LET result == IF fails THEN Thrown("Error")
                   ELSE Returned(authorizeRequestFromClient(request))
     IN rpcCall' = [ op |-> "authorize", arg |-> request,
                     result |-> result, reply |-> authorize(result) ]
  /\ rateCall' = NoCall
  /\ UNCHANGED <<paracordVars, cacheVars, now, emitterVars, globalRateLimit, templates,
                 rateLimits>>

RpcNext ==
  \/ \E message \in RateLimitStateMessages : Update(Returned(message))
  \/ Update(Thrown("Error"))
  \/ \E request \in Requests, fails \in BOOLEAN : Authorize(request, fails)
  \/ Elapse

\* The rate limit service alone, on a server that does nothing else.
RpcSpec == TemplateInit /\ [][RpcNext]_vars

\* ------------------------------------------------- the user and presence caches
UserIds == {"u1", "u2"}

CachedGuildIds == {"g1", "g2"}

Statuses == {"online", "offline"}

\* A presence from Discord: its user object has the key id alone (keys = 1)
\* or the other keys of a user as well.
RawPresences == [ user : [ id : UserIds, keys : {1, 2} ], status : Statuses ]

\* The three Maps of the client.  A cached user is [addr, presence] and a
\* cached presence [addr, status, user]: addr tells the object from every
\* other object of its kind, user.presence is the addr of a presence object
\* if it is defined, and presence.user the addr of a cached user object, or
\* undefined while it is the user object of the payload.
Caches ==
  [ users |-> users, presences |-> presences, guilds |-> guildCache ]

\* A presence object as a caller gets it: the cached one of a user id, with
\* its addr, or the object of a payload.
CachedPresence(c, id) ==
  [ addr |-> Some(c.presences[id].addr), status |-> c.presences[id].status,
    user |-> [ id |-> id ] ]

Payload(presence) ==
  [ addr |-> Undef, status |-> presence.status,
    user |-> [ id |-> presence.user.id ] ]

\* The addrs of the user objects of an id that the caches hold or refer to,
\* and those of its presence objects.
UserAddrs(c, id) ==
  { c.users[i].addr : i \in DOMAIN c.users \cap {id} }
  \cup { Val(c.presences[i].user) :
         i \in { j \in DOMAIN c.presences \cap {id} :
                    IsDef(c.presences[j].user) } }

PresenceAddrs(c, id) ==
  { c.presences[i].addr : i \in DOMAIN c.presences \cap {id} }
  \cup { Val(c.users[i].presence) :
         i \in { j \in DOMAIN c.users \cap {id} :
                    IsDef(c.users[j].presence) } }

\* The addr of a new object: one that no object in use has.
NewAddr(used) == CHOOSE n \in 1..(Cardinality(used) + 1) : n \notin used

MapDelete(map, key) == [ k \in DOMAIN map \ {key} |-> map[k] ]

\* circularAssignCachedPresence(user) for the cached user of the id.
circularAssignCachedPresence(c, id) ==
  IF id \in DOMAIN c.presences
  THEN [ c EXCEPT !.users[id].presence = Some(c.presences[id].addr),
                  !.presences[id].user = Some(c.users[id].addr) ]
  ELSE c

\* upsertUser(user): the cached object of the id is kept, or a new object
\* is cached; Object.assign copies the user's own keys onto it.
upsertUser(c, id) ==
  circularAssignCachedPresence(
    IF id \in DOMAIN c.users THEN c
    ELSE [ c EXCEPT !.users = MapSet(@, id, [ addr |-> NewAddr(UserAddrs(c, id)),
                                              presence |-> Undef ]) ],
    id)

\* circularAssignCachedUser(presence) for the cached presence of the user.
circularAssignCachedUser(c, presence) ==
  LET id == presence.user.id
      c1 == IF presence.user.keys = 1 THEN c ELSE upsertUser(c, id)
  IN IF id \in DOMAIN c1.users
     THEN [ c1 EXCEPT !.presences[id].user = Some(c1.users[id].addr),
                      !.users[id].presence = Some(c1.presences[id].addr) ]
     ELSE c1

\* upsertPresence(presence): Object.assign copies the payload, its user
\* object included, onto the cached presence, or the payload is cached.
upsertPresence(c, presence) ==
  LET id == presence.user.id
  IN circularAssignCachedUser(
       IF id \in DOMAIN c.presences
       THEN [ c EXCEPT !.presences[id].status = presence.status,
                       !.presences[id].user = Undef ]
       ELSE [ c EXCEPT !.presences =
                MapSet(@, id, [ addr |-> NewAddr(PresenceAddrs(c, id)),
                                status |-> presence.status,
                                user |-> Undef ]) ],
       presence)

deletePresence_KeepsReference(c, userId) ==
  [ c EXCEPT !.presences = MapDelete(@, userId) ]

\* deletePresence(userId) of the client.
deletePresence(c, userId) ==
  [ c EXCEPT !.presences = MapDelete(@, userId),
             !.users = IF userId \in DOMAIN @
                       THEN [ @ EXCEPT ![userId].presence = Undef ]
                       ELSE @ ]

\* updatePresences(presence): the caches after the call and the presence
\* returned, the cached one or the offline payload.
updatePresences(c, presence) ==
  IF presence.status # "offline"
  THEN LET c1 == upsertPresence(c, presence)
       IN [ caches |-> c1,
            ret |-> Some(CachedPresence(c1, presence.user.id)) ]
  ELSE [ caches |-> deletePresence(c, presence.user.id),
         ret |-> Some(Payload(presence)) ]

\* guild.setPresence(presence) and guild.deletePresence(userId): the keys
\* of the guild's presences Map, which is keyed by the user id.
GuildSetPresence(c, g, presence) ==
  [ c EXCEPT !.guilds[g].presences = @ \cup {presence.user.id} ]

GuildDeletePresence(c, g, userId) ==
  [ c EXCEPT !.guilds[g].presences = @ \ {userId} ]

\* handlePresence({guild, presence}).
handlePresence(c, guild, presence) ==
  LET r == updatePresences(c, presence)
  IN IF IsDef(r.ret)
     THEN [ r EXCEPT !.caches =
              IF IsDef(guild)
              THEN GuildSetPresence(@, Val(guild), Val(r.ret))
              ELSE @ ]
     ELSE [ r EXCEPT !.caches =
              IF IsDef(guild)
              THEN GuildDeletePresence(@, Val(guild), presence.user.id)
              ELSE @ ]

trimMembersFromDeleteList_MembersOnly(deleteIds, c) ==
  deleteIds \ UNION { c.guilds[g].members : g \in DOMAIN c.guilds }

\* trimMembersFromDeleteList: the ids left to delete; deDupe makes the keys
\* of a guild's presences and members one set.
trimMembersFromDeleteList(deleteIds, c) ==
  deleteIds \ UNION { c.guilds[g].presences \cup c.guilds[g].members :
                      g \in DOMAIN c.guilds }

\* sweepCaches: clearUserFromCaches for every id left in the delete list.
sweepCaches(c) ==
  LET deleteIds == trimMembersFromDeleteList(
                     DOMAIN c.presences \cup DOMAIN c.users, c)
  IN [ c EXCEPT
         !.presences = [ id \in DOMAIN @ \ deleteIds |-> @[id] ],
         !.users = [ id \in DOMAIN @ \ deleteIds |-> @[id] ] ]

\* The count of swept users that sweepCaches logs.
sweptCount(c) ==
  Cardinality(trimMembersFromDeleteList(
                DOMAIN c.presences \cup DOMAIN c.users, c))

SetCaches(c) ==
  /\ users' = c.users
  /\ presences' = c.presences
  /\ guildCache' = c.guilds

UpsertUser(id) ==
  /\ SetCaches(upsertUser(Caches, id))
  /\ cacheCall' = Call("upsertUser", upsertUser(Caches, id).users[id])
  /\ UNCHANGED <<paracordVars, now, emitterVars, rateLimitVars, rpcVars>>

UpdatePresences(presence) ==
  /\ SetCaches(updatePresences(Caches, presence).caches)
  /\ cacheCall' = Call("updatePresences",
                       updatePresences(Caches, presence).ret)
  /\ UNCHANGED <<paracordVars, now, emitterVars, rateLimitVars, rpcVars>>

HandlePresence(guild, presence) ==
  /\ SetCaches(handlePresence(Caches, guild, presence).caches)
  /\ cacheCall' = Call("handlePresence",
                       handlePresence(Caches, guild, presence).ret)
  /\ UNCHANGED <<paracordVars, now, emitterVars, rateLimitVars, rpcVars>>

SweepCaches ==
  /\ SetCaches(sweepCaches(Caches))
  /\ cacheCall' = Call("sweepCaches", sweptCount(Caches))
  /\ UNCHANGED <<paracordVars, now, emitterVars, rateLimitVars, rpcVars>>

\* upsertGuild(data, shard): a guild comes into the cache with the members
\* of its data, or the cached guild's members become those of the data.
UpsertGuild(g, members) ==
  /\ guildCache' = MapSet(guildCache, g,
                          [ members |-> members,
                            presences |-> IF g \in DOMAIN guildCache
                                          THEN guildCache[g].presences
                                          ELSE {} ])
  /\ cacheCall' = Call("upsertGuild", g)
  /\ UNCHANGED <<users, presences>>
  /\ UNCHANGED <<paracordVars, now, emitterVars, rateLimitVars, rpcVars>>

CacheNext ==
  \/ \E id \in UserIds : UpsertUser(id)
  \/ \E presence \in RawPresences : UpdatePresences(presence)
  \/ \E presence \in RawPresences :
        \E guild \in {Undef} \cup { Some(g) : g \in DOMAIN guildCache } :
           HandlePresence(guild, presence)
  \/ SweepCaches
  \/ \E g \in CachedGuildIds, members \in SUBSET UserIds :
        UpsertGuild(g, members)

\* The caches alone, on a client that does nothing else.
CacheSpec == TemplateInit /\ [][CacheNext]_vars

\* ------------------------------------------------------------- vocabulary
GatewayIds == { gateways[i].id : i \in DOMAIN gateways }

\* The emits of `log` hold a SHARD_STARTUP_COMPLETE of the shard.
CompletedIn(log, g) ==
  \E i \in DOMAIN log :
     /\ log[i].event = "SHARD_STARTUP_COMPLETE"
     /\ log[i].shard = Some(g)

\* The emits of `log` hold a SHARD_STARTUP_COMPLETE of the shard with
\* forced = true.
ForcedCompleteIn(log, g) ==
  \E i \in DOMAIN log :
     /\ log[i].event = "SHARD_STARTUP_COMPLETE"
     /\ log[i].shard = Some(g)
     /\ log[i].forced

\* SHARD_STARTUP_COMPLETE has been emitted for the shard.
Completed(g) == CompletedIn(emitted, g)

\* gateway.login() has been called on the shard and its start-up has neither
\* completed nor failed.
InStartup(g) == g \in DOMAIN phase /\ phase[g] # "idle" /\ ~Completed(g)

\* The step is a call of processGatewayQueue that dequeues a shard.
Dequeues == Len(gatewayLoginQueue') = Len(gatewayLoginQueue) - 1

\* The step is a dispatch of an event of the given type by the shard.
EventStep(eventType, g) ==
  /\ lastCall'.op = "eventHandler"
  /\ \E n \in Guilds(eventType) : GatewayEvent(eventType, n, g)

\* The ids of the gateways in the order of enqueueing.
EnqueueOrder == [ i \in DOMAIN gateways |-> gateways[i].id ]

\* Position of a shard in the order of enqueueing (addNewGateway sets the
\* Map entry and pushes onto the queue together).
EnqueuePos(g) == CHOOSE i \in DOMAIN gateways : gateways[i].id = g

\* ------------------------------------------------------------------ claims

\* C1: processGatewayQueue dequeues a shard only when preventLogin is false
\* and no shard is the starting shard (whenever the tick about to fire would
\* dequeue, both hold); at most one shard is in its identify/start-up phase
\* at any time, and it is startingGateway.
C1_OneStartingShard ==
  /\ CanDequeue(now + SECOND_IN_MILLISECONDS)
        => ~preventLogin /\ startingGateway = Undef
  /\ \A g \in ShardIds : InStartup(g) => startingGateway = Some(g)

\* C2: with default constructor options, once login() has enqueued shards the
\* tick eventually dequeues the first queued shard and calls its login().
C2_LoginLoopLive ==
  (options = DefaultOptions /\ Len(gatewayLoginQueue) > 0)
     ~> IsDef(lastLogin)

\* C3: a dequeue at time t sets the identify guard to t + 10 s.
C3_GuardIsNowPlusTen ==
  [][Dequeues =>
       safeGatewayIdentifyTimestamp' = Some(now' + IDENTIFY_BUFFER)]_vars

\* C4: shards begin login in the order in which they were enqueued, a shard
\* whose login failed being retried before any later shard: the queue always
\* holds, in the order of enqueueing, every shard enqueued after the one that
\* logged in last, preceded by that one while its failed login awaits the
\* retry, so that the head of the queue is always the next in that order.
C4_LoginQueueFifo ==
  LET next == Len(gateways) - Len(gatewayLoginQueue) + 1
  IN /\ next >= 1
     /\ gatewayLoginQueue = SubSeq(EnqueueOrder, next, Len(gateways))
     /\ IF lastLogin = Undef
        THEN next = 1
        ELSE EnqueuePos(Val(lastLogin)) \in {next - 1, next}

\* C5: with gatewayWaitCount left at its constructor default, a GUILD_CREATE
\* received on the starting shard while G > 0 guilds remain leaves G - 1
\* remaining, and when that is zero SHARD_STARTUP_COMPLETE is emitted for the
\* shard and the shard stops being the starting shard.
C5_GuildCreateCountsDown ==
  [][\A g \in ShardIds :
       ( /\ options.gatewayWaitCount = Undef
         /\ EventStep("GUILD_CREATE", g)
         /\ startingGateway = Some(g)
         /\ IsDef(guildWaitCount) /\ Val(guildWaitCount) > 0 )
       => IF Val(guildWaitCount) > 1
          THEN guildWaitCount' = Some(Val(guildWaitCount) - 1)
          ELSE Completed(g)' /\ startingGateway' = Undef]_vars

\* C6: a GUILD_CREATE received from the shard that is starting up is never
\* forwarded (eventHandler returns undefined for it), whatever
\* allowEventsDuringStartup is.
C6_GuildCreateSuppressed ==
  \A g \in ShardIds :
     (startingGateway = Some(g) /\ Dispatches("GUILD_CREATE", g))
     => eventHandler("GUILD_CREATE", 0, g).ret = "undefined"

\* With the flag set only a GUILD_CREATE of the starting shard is suppressed.
C6_Witness ==
  /\ lastCall = Call("eventHandler", "undefined")
  /\ allowEventsDuringStartup
  /\ IsDef(startingGateway)
  /\ guildWaitCount = Some(1)

\* C7 (as claimed): a non-GUILD_CREATE event received from the starting shard
\* is suppressed iff allowEventsDuringStartup is false.
C7_Original ==
  [][\A g \in ShardIds, t \in EventTypes \ {"GUILD_CREATE"} :
       (startingGateway = Some(g) /\ EventStep(t, g))
       => (lastCall'.ret = "undefined" <=> ~allowEventsDuringStartup)]_vars

\* C7 (amended): a non-GUILD_CREATE event received from the starting shard is
\* suppressed iff allowEventsDuringStartup is false when the shard is still
\* the starting shard after the event's own handler has run, and forwarded
\* raw when the flag is true; a READY that completes the shard's start-up in
\* its handler is forwarded whatever the flag.
C7_SuppressedWhileStillStarting ==
  \A g \in ShardIds, t \in EventTypes \ {"GUILD_CREATE"} :
     (startingGateway = Some(g) /\ Dispatches(t, g))
     => \A n \in Guilds(t) :
          LET r == eventHandler(t, n, g)
          IN IF r.state.startingGateway = Some(g)
             THEN /\ r.ret = "undefined" <=> ~allowEventsDuringStartup
                  /\ r.ret = "data" <=> allowEventsDuringStartup
             ELSE /\ t = "READY"
                  /\ CompletedIn(r.state.emitted, g)
                  /\ r.ret = "emit"

\* Only an event of the starting shard that is not a GUILD_CREATE returns
\* the raw payload.
C7_Witness ==
  /\ lastCall = Call("eventHandler", "data")
  /\ allowEventsDuringStartup
  /\ IsDef(startingGateway)

\* C8: every event received from a shard whose start-up has completed is
\* forwarded and changes no start-up counter.
C8_CompletedShardForwards ==
  [][\A g \in ShardIds, t \in EventTypes :
       (Completed(g) /\ EventStep(t, g))
       => /\ Forwarded(lastCall'.ret)
          /\ UNCHANGED <<guildWaitCount, gatewayWaitCount,
                         lastGuildTimestamp>>]_vars

\* C9: when the last of the shards enqueued by login() has completed its
\* start-up, PARACORD_STARTUP_COMPLETE has been emitted.
C9_GlobalStartupComplete ==
  ( /\ loginState = "done"
    /\ gatewayLoginQueue = <<>>
    /\ \A g \in GatewayIds : Completed(g) )
  => \E i \in DOMAIN emitted : emitted[i].event = "PARACORD_STARTUP_COMPLETE"

\* C10: when the force-start timer of the starting shard finds the remaining
\* guild count within the tolerance and no GUILD_CREATE for the wait, the
\* shard is forced complete: SHARD_STARTUP_COMPLETE (forced) is emitted and
\* the shard stops being the starting shard.
C10_ForcedCompletion ==
  \A g \in timers :
     ( /\ startingGateway = Some(g)
       /\ IsDef(guildWaitCount)
       /\ Val(guildWaitCount) <= Val(unavailableGuildTolerance)
       /\ IsDef(lastGuildTimestamp)
       /\ Val(lastGuildTimestamp)
            + Val(unavailableGuildWait) * SECOND_IN_MILLISECONDS < now )
     => LET s == startWithUnavailableGuilds(g)
        IN /\ s.startingGateway = Undef
           /\ ForcedCompleteIn(s.emitted, g)

\* C11: whenever a shard stops being the starting shard, because its start-up
\* completed or because its login failed, releaseIdentifyLocks has been
\* called on it.
C11_IdentifyLocksReleased ==
  [][\A g \in ShardIds :
       (startingGateway = Some(g) /\ startingGateway' # Some(g))
       => g \in released']_vars

\* C12: a shard whose login fails terminally is not put back on the login
\* queue.
C12_TerminalFailureNotRequeued ==
  [][\A err \in TerminalErrors, k \in DOMAIN pendingLogin :
       (LoginRejected(err) /\ pendingLogin' = RemoveAt(pendingLogin, k))
       => \A i \in DOMAIN gatewayLoginQueue' :
             gatewayLoginQueue'[i] # pendingLogin[k].gateway]_vars

\* ------------------------------------------------------- the shard plan
\* The plan enqueueGateways receives: the argument of login() after the
\* injection from the environment.
PlanGiven == InjectShardSettings(Val(loginArgs).env, Val(loginArgs).options)

LoginCalled == IsDef(loginArgs) /\ loginState # "none"

ValidationError == Some("shard id exceeds max shard id")

\* C13: when login is given both shard ids and a shard count and some id is
\* >= shardCount, login fails with the validation error and the gateways and
\* the login queue are left as they were (empty); when every id is
\* < shardCount no validation error is raised.
C13_ShardPlanValidated ==
  (LoginCalled /\ IsDef(PlanGiven.shards) /\ IsDef(PlanGiven.shardCount))
  => IF \E i \in DOMAIN Val(PlanGiven.shards) :
          Val(PlanGiven.shards)[i] >= Val(PlanGiven.shardCount)
     THEN /\ loginState = "failed"
          /\ loginError = ValidationError
          /\ gateways = <<>>
          /\ gatewayLoginQueue = <<>>
     ELSE loginError # ValidationError

C13_Witness ==
  /\ LoginCalled
  /\ IsDef(PlanGiven.shards) /\ IsDef(PlanGiven.shardCount)
  /\ \E i \in DOMAIN Val(PlanGiven.shards) :
        Val(PlanGiven.shards)[i] = Val(PlanGiven.shardCount)
  /\ loginError = ValidationError
  /\ gateways = <<>>

\* C14: when the caller supplies shard ids but no shardCount, login does not
\* fail because shardCount is missing: it asks the service for the count and
\* goes on to spawn the shards.
C14_ShardsWithoutCountProceeds ==
  (LoginCalled /\ IsDef(PlanGiven.shards) /\ ~IsDef(PlanGiven.shardCount))
  => /\ loginError # Some("shards defined with no shardCount.")
     /\ loginState \in {"awaitingApi", "done"}

BothOmitted ==
  /\ IsDef(loginArgs)
  /\ ~IsDef(PlanGiven.shards)
  /\ ~IsDef(PlanGiven.shardCount)

\* C15: when both the shard ids and shardCount are omitted, login asks the
\* service for the recommended count N; on a reply of status 200 it enqueues
\* exactly one gateway for each id 0..N-1, in ascending order, each with
\* identity.shard = [id, N]; on any other reply it fails with an error and
\* enqueues no gateway.
C15_BothOmittedFetchesPlan ==
  [][BothOmitted =>
       \A status \in {200, 500}, N \in 1..MaxShards :
          GatewayBotResponse(status, N)
          => IF status = 200
             THEN /\ loginState' = "done"
                  /\ gateways' = [ i \in 1..N |->
                                     [ id |-> i - 1, shard |-> <<i - 1, N>> ] ]
                  /\ gatewayLoginQueue' = [ i \in 1..N |-> i - 1 ]
             ELSE /\ loginState' = "failed"
                  /\ IsDef(loginError')
                  /\ gateways' = <<>>
                  /\ gatewayLoginQueue' = <<>>]_vars

C15_Witness ==
  /\ BothOmitted
  /\ loginState = "done"
  /\ Len(gateways) = MaxShards
  /\ gatewayLoginQueue = [ i \in 1..MaxShards |-> i - 1 ]

\* The environment a shard launcher sets for the shard ids q and the count n.
LauncherEnv(q, n) ==
  [ PARACORD_SHARD_IDS |-> Some(Join(q)),
    PARACORD_SHARD_COUNT |-> Some(DecimalString(n)) ]

\* The gateways of the first k shards of the plan (q, n).
PlannedGateways(q, n, k) ==
  [ i \in 1..k |-> [ id |-> q[i], shard |-> <<q[i], n>> ] ]

\* C16: when both environment variables are set, the shards login spawns are
\* exactly those of the environment (the ids of the comma-separated list, in
\* its order, with the count of the count variable), whatever shards and
\* shardCount the caller passed: a plan login accepts is spawned whole, and
\* of a plan login rejects only leading shards of the environment's list
\* are ever spawned.
C16_EnvironmentOverridesPlan ==
  \A q \in ShardLists, n \in 1..MaxShards :
     (LoginCalled /\ Val(loginArgs).env = LauncherEnv(q, n))
     => IF /\ \A i \in DOMAIN q : q[i] < n
           /\ \A i, j \in DOMAIN q : q[i] = q[j] => i = j
        THEN /\ loginState = "done"
             /\ gateways = PlannedGateways(q, n, Len(q))
             /\ gatewayLoginQueue = q
        ELSE /\ loginState = "failed"
             /\ \E k \in 0..(Len(q) - 1) :
                   /\ gateways = PlannedGateways(q, n, k)
                   /\ gatewayLoginQueue = SubSeq(q, 1, k)

C16_Witness ==
  /\ LoginCalled
  /\ Val(loginArgs).env = LauncherEnv(<<0, 1>>, 2)
  /\ Val(loginArgs).options.shards = Some(<<2>>)
  /\ Val(loginArgs).options.shardCount = Some(1)
  /\ gatewayLoginQueue = <<0, 1>>
  /\ gateways = PlannedGateways(<<0, 1>>, 2, 2)

\* ----------------------------------------------------------- the emitter
\* C17: emit(event, ...args) delivers the arguments exactly once, to the
\* listeners of events[event] when the remap has an entry for event and to
\* the listeners of event itself otherwise, and to no other listener.
C17_EmitRemapsName ==
  IsDef(lastEmit)
  => LET e == Val(lastEmit)
         name == IF IsDef(events) /\ e.event \in DOMAIN Val(events)
                 THEN Val(events)[e.event] ELSE e.event
     IN /\ DOMAIN e.calls = listeners
        /\ \A r \in listeners :
              e.calls[r] = IF r.name = name THEN <<e.args>> ELSE <<>>

C17_Witness ==
  /\ IsDef(lastEmit) /\ IsDef(events)
  /\ Val(lastEmit).event = "GUILD_CREATE"
  /\ "GUILD_CREATE" \in DOMAIN Val(events)
  /\ Val(events)["GUILD_CREATE"] = "guildCreate"
  /\ \E r, q \in listeners :
        /\ r.name = "guildCreate" /\ q.name = "GUILD_CREATE"
        /\ Val(lastEmit).calls[r] = <<Val(lastEmit).args>>
        /\ Val(lastEmit).calls[q] = <<>>

\* ----------------------------------------------------- the template store
\* C18: upsert(headers) with a bucket present leaves exactly one template
\* for that bucket, holding the (limit, resetAfter) of the headers, and
\* leaves every other bucket's template unchanged; upsert(headers) with no
\* bucket present creates or changes no template.
C18_TemplateUpsert ==
  rateCall.op = "upsert"
  => LET state == rateCall.arg
         before == rateCall.before
     IN IF IsDef(state.bucket)
        THEN /\ DOMAIN templates = DOMAIN before \cup {state.bucket}
             /\ templates[state.bucket] =
                  [ limit |-> state.limit, resetAfter |-> state.resetAfter ]
             /\ \A k \in DOMAIN before \ {state.bucket} :
                   templates[k] = before[k]
        ELSE templates = before

\* C19: createAssumedRateLimit(bucket) returns, when a template exists for
\* the bucket, a fresh budget with limit = template.limit, remaining = limit
\* and the number now + template.resetAfter as resetTimestamp; when no
\* template exists it returns undefined; in both cases it creates nothing.
C19_AssumedRateLimit ==
  rateCall.op = "createAssumedRateLimit"
  => /\ templates = rateCall.before
     /\ rateLimits = <<>>
     /\ IF Some(rateCall.arg) \in DOMAIN templates
        THEN LET template == templates[Some(rateCall.arg)]
                 rateLimit == Val(rateCall.ret)
             IN /\ IsDef(rateCall.ret)
                /\ rateLimit.limit = template.limit
                /\ rateLimit.remaining = template.limit
                /\ rateLimit.resetTimestamp.type = "number"
                /\ rateLimit.resetTimestamp.value = now + template.resetAfter
        ELSE rateCall.ret = Undef

\* ------------------------------------------------------------- the sweep
\* C20: after sweepExpiredRateLimits runs at time now, the rate limit map
\* holds exactly the entries it held before with expires >= now, each
\* unchanged; every entry with expires < now is gone and none is added.
C20_SweepEvictsExpired ==
  rateCall.op = "sweepExpiredRateLimits"
  => LET before == rateCall.before
     IN /\ DOMAIN rateLimits =
             { k \in DOMAIN before : before[k].expires >= now }
        /\ \A k \in DOMAIN rateLimits : rateLimits[k] = before[k]

C20_Witness ==
  /\ rateCall.op = "sweepExpiredRateLimits"
  /\ \E k \in DOMAIN rateCall.before :
        rateCall.before[k].expires < now /\ k \notin DOMAIN rateLimits
  /\ \E k \in DOMAIN rateLimits : rateLimits[k].expires = now

\* ------------------------------------------------- the rate limit service
\* C21: every Update call with global = true reaches the rate limit cache
\* and trips the global bucket into a cool-down of resetAfter, whether or
\* not the message carries a bucket id.
C21_GlobalUpdateReachesCache ==
  (rpcCall.op = "update" /\ ~rpcCall.arg.threw /\ rpcCall.arg.value.global)
  => /\ rpcCall.reached
     /\ globalRateLimit = Some(now + rpcCall.arg.value.resetAfter)

\* C22: the reply of every Authorize call carries exactly the resetAfter
\* that authorizeRequestFromClient returned for the request; if the cache
\* throws, the caller receives the error and no reply, so never a granting
\* one (resetAfter = 0).
C22_AuthorizeRelaysCache ==
  rpcCall.op = "authorize"
  => IF rpcCall.result.threw
     THEN /\ rpcCall.reply.err = Some(rpcCall.result.value)
          /\ rpcCall.reply.message = Undef
     ELSE /\ rpcCall.reply.err = Undef
          /\ IsDef(rpcCall.reply.message)
          /\ Val(rpcCall.reply.message).reset_after = rpcCall.result.value

C22_Witness ==
  /\ rpcCall.op = "authorize"
  /\ ~rpcCall.result.threw
  /\ rpcCall.result.value > 0
  /\ Val(rpcCall.reply.message).reset_after = rpcCall.result.value

\* ------------------------------------------------- the start-up counters
\* A step of the login interval (the tick and the continuation of its
\* await) or of a force-start interval.
TimerDriven ==
  \/ processGatewayQueue
  \/ LoginResolved
  \/ \E err \in LoginErrors : LoginRejected(err)
  \/ \E g \in ShardIds : TimerFired(g)

\* C23: guildWaitCount, gatewayWaitCount and lastGuildTimestamp are modified
\* only on the gateway event-dispatch path; no timer-driven action (the
\* login tick, the force-start timer) writes them.
C23_CountersOnlyOnEventPath ==
  [][TimerDriven
       => UNCHANGED <<guildWaitCount, gatewayWaitCount,
                      lastGuildTimestamp>>]_vars

\* ------------------------------------------------------ shard completion
\* The start-up state each handler that can run now would leave: the
\* eventHandler of a dispatch, or the callback of a force-start interval.
HandlerResults ==
  { eventHandler(x[1], x[2], x[3]).state :
      x \in { y \in EventTypes \X (0..MaxGuilds) \X ShardIds :
                y[2] \in Guilds(y[1]) /\ Dispatches(y[1], y[3]) } }
  \cup { startWithUnavailableGuilds(g) : g \in timers }

\* What a handler that leaves the start-up state r emits.
NewEmits(r) == SubSeq(r.emitted, Len(emitted) + 1, Len(r.emitted))

\* C24: when a shard's start-up completes, its identify locks are released
\* first, then the starting-shard state is cleared, then
\* SHARD_STARTUP_COMPLETE is emitted with the completed gateway as payload
\* shard, and only afterwards, if at all, PARACORD_STARTUP_COMPLETE; the
\* listeners of SHARD_STARTUP_COMPLETE find startingGateway undefined.
C24_CompletionOrder ==
  \A r \in HandlerResults :
     NewEmits(r) # <<>>
     => LET new == NewEmits(r)
        IN /\ IsDef(startingGateway)
           /\ new[1].event = "SHARD_STARTUP_COMPLETE"
           /\ new[1].shard = startingGateway
           /\ new[1].calls = <<"releaseIdentifyLocks",
                               "clearStartingShardState">>
           /\ new[1].startingGateway = Undef
           /\ Val(startingGateway) \in r.released
           /\ Len(new) <= 2
           /\ Len(new) = 2
                => /\ new[2].event = "PARACORD_STARTUP_COMPLETE"
                   /\ new[2].calls = <<"releaseIdentifyLocks",
                                       "clearStartingShardState",
                                       "SHARD_STARTUP_COMPLETE">>

C24_Witness ==
  \E i \in DOMAIN emitted :
     /\ i + 1 \in DOMAIN emitted
     /\ emitted[i].event = "SHARD_STARTUP_COMPLETE"
     /\ emitted[i].shard = Some(1)
     /\ emitted[i].startingGateway = Undef
     /\ emitted[i + 1].event = "PARACORD_STARTUP_COMPLETE"
     /\ 1 \in released

\* --------------------------------------------------------- a failed login
\* C25: if gateway.login() rejects for the shard just dequeued, the starting
\* state is cleared (startingGateway, guildWaitCount and lastGuildTimestamp
\* become undefined) and that gateway goes back to the head of the login
\* queue, the other queued shards staying behind it in their order.
C25_RejectedLoginRequeuedAtHead ==
  \A k \in DOMAIN pendingLogin :
     LET gateway == pendingLogin[k].gateway
         r == catchLoginError(gateway)
     IN /\ r.state.startingGateway = Undef
        /\ r.state.guildWaitCount = Undef
        /\ r.state.lastGuildTimestamp = Undef
        /\ Head(r.gatewayLoginQueue) = gateway
        /\ Tail(r.gatewayLoginQueue) = gatewayLoginQueue

C25_Witness ==
  /\ loginFailures > 0
  /\ pendingLogin = <<>>
  /\ startingGateway = Undef /\ guildWaitCount = Undef
  /\ Len(gatewayLoginQueue) = 2
  /\ lastLogin = Some(Head(gatewayLoginQueue))

\* ------------------------------------------------------ READY and guilds
\* C26: when the starting shard's READY lists zero guilds, the shard's
\* start-up completes while READY is handled: SHARD_STARTUP_COMPLETE is
\* emitted for it without any GUILD_CREATE.
C26_ReadyWithoutGuildsCompletes ==
  \A g \in ShardIds :
     (startingGateway = Some(g) /\ Dispatches("READY", g))
     => LET r == eventHandler("READY", 0, g).state
        IN /\ CompletedIn(NewEmits(r), g)
           /\ r.startingGateway = Undef


\* C27: a firing of the force-start timer forces the start-up of a shard
\* complete only if the shard has received its READY, the guilds it still
\* waits for (those its own READY listed, less its own GUILD_CREATEs) are
\* within unavailableGuildTolerance, and unavailableGuildWait seconds or more
\* have passed since the last READY or GUILD_CREATE the shard received.
C27_ForcedNeverTooEarly ==
  \A g \in timers :
     ForcedCompleteIn(NewEmits(startWithUnavailableGuilds(g)), g)
     => /\ IsDef(awaited)
        /\ Val(awaited).guilds <= Val(unavailableGuildTolerance)
        /\ Val(awaited).at
             + Val(unavailableGuildWait) * SECOND_IN_MILLISECONDS <= now

\* C28: a READY dispatched by a shard other than the starting shard leaves
\* the remaining guild count of the starting shard as it was and does not
\* complete the starting shard's start-up.
C28_ForeignReadyIgnored ==
  \A g \in ShardIds, n \in Guilds("READY") :
     ( /\ Dispatches("READY", g)
       /\ IsDef(startingGateway)
       /\ startingGateway # Some(g) )
     => LET r == eventHandler("READY", n, g).state
        IN /\ r.guildWaitCount = guildWaitCount
           /\ r.startingGateway = startingGateway
           /\ NewEmits(r) = <<>>

\* C29: a GUILD_CREATE, or any other event but READY, dispatched by a shard
\* other than the starting shard leaves guildWaitCount, lastGuildTimestamp,
\* gatewayWaitCount and startingGateway as they were and is forwarded to the
\* user.
C29_ForeignEventFramed ==
  \A t \in EventTypes \ {"READY"}, g \in ShardIds :
     (Dispatches(t, g) /\ startingGateway # Some(g))
     => LET r == eventHandler(t, 0, g)
        IN /\ r.state.guildWaitCount = guildWaitCount
           /\ r.state.lastGuildTimestamp = lastGuildTimestamp
           /\ r.state.gatewayWaitCount = gatewayWaitCount
           /\ r.state.startingGateway = startingGateway
           /\ r.state.emitted = emitted
           /\ r.ret = "emit"

\* A shard is starting and waits for guilds, another shard is active, and
\* the last dispatch handled was forwarded without touching the timestamp
\* of the starting shard: it was no READY and came from the other shard.
C29_Witness ==
  /\ IsDef(startingGateway)
  /\ IsDef(guildWaitCount) /\ Val(guildWaitCount) > 0
  /\ IsDef(lastGuildTimestamp) /\ Val(lastGuildTimestamp) < now
  /\ \E g \in ShardIds :
        Dispatches("GUILD_CREATE", g) /\ startingGateway # Some(g)
  /\ lastCall = Call("eventHandler", "emit")

\* C30: whenever guildWaitCount is defined it is zero or more: no READYs and
\* GUILD_CREATEs of the starting shard bring the count below zero.
C30_GuildWaitCountNotNegative ==
  IsDef(guildWaitCount) => Val(guildWaitCount) >= 0

\* C31: gatewayWaitCount is the number of gateways that login() has added and
\* whose start-up has not completed.
C31_WaitCountCountsGateways ==
  loginState = "done"
  => gatewayWaitCount
       = Some(Cardinality({ g \in GatewayIds : ~Completed(g) }))

\* C32: the callback of a force-start timer changes nothing unless the
\* gateway it was armed for is the starting shard: whichever gateway a timer
\* is bound to, running or stale, it forces the completion of no other shard.
C32_TimerForcesOwnShardOnly ==
  \A g \in GatewayIds :
     startWithUnavailableGuilds(g) # Startup
     => /\ startingGateway = Some(g)
        /\ ForcedCompleteIn(NewEmits(startWithUnavailableGuilds(g)), g)
        /\ \A h \in GatewayIds \ {g} :
              ~CompletedIn(NewEmits(startWithUnavailableGuilds(g)), h)

\* A timer armed for a shard whose start-up had already completed is still
\* running while a later shard is starting.
C32_Witness ==
  \E g \in timers :
     /\ Completed(g)
     /\ IsDef(startingGateway)
     /\ startingGateway # Some(g)
     /\ IsDef(guildWaitCount)
     /\ Val(guildWaitCount) <= Val(unavailableGuildTolerance)

\* C33: no handler emits PARACORD_STARTUP_COMPLETE while a shard enqueued by
\* login() is still in the login queue or is the starting shard.
C33_NoEarlyStartupComplete ==
  \A r \in HandlerResults :
     (\E i \in DOMAIN NewEmits(r) :
         NewEmits(r)[i].event = "PARACORD_STARTUP_COMPLETE")
     => /\ gatewayLoginQueue = <<>>
        /\ r.startingGateway = Undef

\* C34: the gateways map holds at most one gateway for a shard id and adding
\* a gateway of an id it holds throws; every gateway in the login queue is in
\* the map, none is in the queue twice, and the starting gateway is not in
\* the queue.
C34_ShardSet ==
  /\ \A i, j \in DOMAIN gateways :
        gateways[i].id = gateways[j].id => i = j
  /\ \A id \in GatewayIds :
        LET g == addNewGateways([ gateways |-> gateways,
                                  gatewayLoginQueue |-> gatewayLoginQueue,
                                  gatewayWaitCount |-> gatewayWaitCount,
                                  threw |-> FALSE ], <<id>>, 1)
        IN g.threw /\ g.gateways = gateways
                   /\ g.gatewayLoginQueue = gatewayLoginQueue
  /\ \A i \in DOMAIN gatewayLoginQueue : gatewayLoginQueue[i] \in GatewayIds
  /\ \A i, j \in DOMAIN gatewayLoginQueue :
        gatewayLoginQueue[i] = gatewayLoginQueue[j] => i = j
  /\ \A i \in DOMAIN gatewayLoginQueue :
        startingGateway # Some(gatewayLoginQueue[i])

\* login() was given a shard id twice and threw at the second; the gateway
\* added before it went back to the queue after a rejected login and is
\* logging in again.
C34_Witness ==
  /\ loginError = Some("duplicate shard id")
  /\ loginFailures > 0
  /\ IsDef(startingGateway)
  /\ Len(gateways) = 1

\* C36: RateLimitMap.upsert returns the rate limit that the map holds under
\* the key after the call, the new one when the key was absent and the
\* tightened one when it was present, and changes no other key.
C36_UpsertReturnsStored ==
  rateCall.op = "RateLimitMap.upsert"
  => /\ rateCall.arg \in DOMAIN rateLimits
     /\ rateCall.ret = Some(rateLimits[rateCall.arg])
     /\ \A k \in RateLimitKeys \ {rateCall.arg} :
           /\ k \in DOMAIN rateLimits <=> k \in DOMAIN rateCall.before
           /\ k \in DOMAIN rateLimits
              => rateLimits[k] = rateCall.before[k]

\* C35: a client is initialized once.  init() on an initialized client
\* throws 'Client has already been initialized.' and leaves the Api client
\* as it is, and login() calls init() only on a client that is not
\* initialized yet: the Api client is set up once and never replaced.
C35_InitializedOnce ==
  [][ /\ initialized <=> api = Some(1)
      /\ ~initialized <=> api = Undef
      /\ initialized => initialized' /\ api' = api
      /\ (lastCall'.op = "init" /\ lastCall' # lastCall)
         => lastCall'.ret = (IF initialized
                             THEN Some("Client has already been initialized.")
                             ELSE Undef)
      /\ loginState' # loginState => initialized' /\ api' = Some(1) ]_vars

\* login() has run on a client and init() was then called on it and threw.
C35_Witness ==
  /\ lastCall = Call("init", Some("Client has already been initialized."))
  /\ loginState # "none"
  /\ initialized
  /\ api = Some(1)

\* ------------------------------------------------------------- the caches
\* The ids that are a key of the members or of the presences of a cached
\* guild.
ReferencedByGuild ==
  UNION { guildCache[g].members \cup guildCache[g].presences :
          g \in DOMAIN guildCache }

\* C37: for a user id in both the users and the presences cache the user's
\* presence is the cached presence object and the presence's user is the
\* cached user object; a cached user without a cached presence has presence
\* undefined.
C37_CrossReferences ==
  \A id \in DOMAIN users :
     IF id \in DOMAIN presences
     THEN /\ users[id].presence = Some(presences[id].addr)
          /\ presences[id].user = Some(users[id].addr)
     ELSE users[id].presence = Undef

\* One user is cached with its presence, and the presence of another cached
\* user has just been deleted by an offline update.
C37_Witness ==
  \E id, other \in DOMAIN users :
     /\ id \in DOMAIN presences
     /\ other \notin DOMAIN presences
     /\ cacheCall.op = "updatePresences"
     /\ Val(cacheCall.ret).status = "offline"
     /\ Val(cacheCall.ret).user.id = other

\* C38: handlePresence with an offline presence and a guild removes the
\* user's presence from the client's presence cache and from the guild's
\* presences, and stores nothing in the guild.
C38_OfflineLeavesGuild ==
  \A g \in DOMAIN guildCache, presence \in RawPresences :
     presence.status = "offline"
     => LET c == handlePresence(Caches, Some(g), presence).caches
        IN /\ presence.user.id \notin DOMAIN c.presences
           /\ presence.user.id \notin c.guilds[g].presences

\* C39: sweepCaches removes from the users and from the presences cache the
\* ids that no cached guild has as a key of its members or presences, and
\* these alone and nothing else: after a sweep every id left in either
\* cache is referenced by a guild.
C39_SweepExact ==
  /\ LET c == sweepCaches(Caches)
     IN /\ DOMAIN c.users = DOMAIN users \cap ReferencedByGuild
        /\ DOMAIN c.presences = DOMAIN presences \cap ReferencedByGuild
        /\ \A id \in DOMAIN c.users : c.users[id] = users[id]
        /\ \A id \in DOMAIN c.presences : c.presences[id] = presences[id]
        /\ c.guilds = guildCache
  /\ cacheCall.op = "sweepCaches"
     => DOMAIN users \cup DOMAIN presences \subseteq ReferencedByGuild

\* A sweep among two guilds has removed one user and left another, whom a
\* guild has as a key of its presences only.
C39_Witness ==
  /\ cacheCall = Call("sweepCaches", 1)
  /\ Cardinality(DOMAIN guildCache) = 2
  /\ \E id \in DOMAIN users :
        /\ \A g \in DOMAIN guildCache : id \notin guildCache[g].members
        /\ \E g \in DOMAIN guildCache : id \in guildCache[g].presences

=============================================================================
